---- MODULE Spec2Model ----
(***************************************************************************)
(* A model of wunder_python.Wunder, the Wunderlist API driver.             *)
(*                                                                         *)
(* A method call runs from its entry (the method's action, taken at        *)
(* pc = "idle") through the requests it issues; every request is one step  *)
(* of the transport helper that issues it (_get, _post, _patch, _delete),  *)
(* atomic with the remote service's answer.  Between two requests of one   *)
(* call another client of the service may write (ExternalWrite).  At       *)
(* pc = "done" the call's outcome and the requests it issued are visible;  *)
(* Return hands control back to the caller.                                *)
(***************************************************************************)
EXTENDS Integers, Sequences, FiniteSets, TLC

(* ------------------------------ bounds -------------------------------- *)

\* largest revision a resource starts a call with, or a caller supplies
MaxRev == 3
\* external writes between the requests of one call
MaxExt == 1

\* the title limit of _check_title
MaxTitleLen == 255
\* the status code _delete compares with
NoContent == 204

Revs == 1..MaxRev
Ids == {1}
ListIds == {1, 2}
Tokens == {"tokenA", "tokenB"}
ClientIds == {"app1"}
\* a title is its text and len(title)
Titles == {[text |-> "short", len |-> MaxTitleLen],
           [text |-> "long", len |-> MaxTitleLen + 1]}
Contents == {"milk"}
Kinds == {"list", "folder", "task", "subtask", "note"}

VARIABLES
  headers_plain,    \* self.headers_plain
  headers_payload,  \* self.headers_payload
  credentials,      \* the arguments the object was constructed with
  folder,           \* the remote folder: exists, revision, list_ids
  resource,         \* revision of the remote list, task, subtask or note
                    \* the call in progress addresses (0 between calls)
  pc,               \* "idle", the transport helper about to run, or "done"
  call,             \* the method called and its arguments
  frame,            \* the pending request and the code that continues after it
  log,              \* the requests of the call in progress with their answers
  outcome,          \* what the call returned or raised
  ext,              \* external writes during the call in progress
  prev              \* the previous call, when it was a successful add_to_folder

vars == <<headers_plain, headers_payload, credentials, folder, resource,
          pc, call, frame, log, outcome, ext, prev>>

(* --------------------------- python values ---------------------------- *)

Range(s) == {s[i] : i \in 1..Len(s)}

\* json.dumps(payload): the serialized text, kept apart from the dict it encodes
json_dumps(payload) == <<"json", payload>>
json_loads(data) == data[2]
NoData == <<>>
NoParams == <<>>
NoKwargs == <<>>

\* str(n) for a revision number
str(n) == ToString(n)
int(s) == CHOOSE n \in 0..(MaxRev + MaxExt + 2) : ToString(n) = s

NoOutcome == [status |-> "running", exc |-> "", msg |-> "", value |-> <<>>]
Returned(v) == [status |-> "return", exc |-> "", msg |-> "", value |-> v]
Raised(exc, msg) == [status |-> "raise", exc |-> exc, msg |-> msg, value |-> <<>>]

NoExc == [raised |-> FALSE, exc |-> "", msg |-> ""]
Exc(exc, msg) == [raised |-> TRUE, exc |-> exc, msg |-> msg]

(* --------------------------- response bodies -------------------------- *)

\* a python value as repr() writes it: True == "true" is False
PyTrue == "True"
PyFalse == "False"
\* the str "true"
StrTrue == "'true'"

NoError == [keys |-> {}, message |-> ""]

\* a record of a resource
DictBody(kind, rev, lids) ==
  [type |-> "dict",
   keys |-> {"id", "revision", "type"} \cup (IF kind = "folder" THEN {"list_ids"} ELSE {}),
   error |-> NoError, revision |-> rev, list_ids |-> lids, items |-> <<>>,
   list_id |-> 0, public |-> PyFalse]

\* the record of a task, which names the list that owns it
TaskBody(rev, list_id) ==
  [DictBody("task", rev, <<>>) EXCEPT !.keys = @ \cup {"list_id", "title"},
                                      !.list_id = list_id]

\* the record of a list
ListRecord(rev, public) ==
  [DictBody("list", rev, <<>>) EXCEPT !.keys = @ \cup {"title", "public"},
                                      !.public = public]

\* an element of a JSON array: the keys it has and their values
Item(keys, id, title, task_id) ==
  [keys |-> keys, id |-> id, title |-> title, task_id |-> task_id]
ListItem(id, title) == Item({"id", "title", "revision", "type"}, id, title, 0)
NoteItem(id, task_id) == Item({"id", "task_id", "revision", "type"}, id, "", task_id)
ErrorItem == Item({"error"}, 0, "", 0)

\* {"error": e}
ErrorBody(e) ==
  [type |-> "dict", keys |-> {"error"}, error |-> e,
   revision |-> 0, list_ids |-> <<>>, items |-> <<>>,
   list_id |-> 0, public |-> PyFalse]

\* a JSON array
ListBody(items) ==
  [type |-> "list", keys |-> {}, error |-> NoError,
   revision |-> 0, list_ids |-> <<>>, items |-> items,
   list_id |-> 0, public |-> PyFalse]

\* {}
EmptyDict ==
  [type |-> "dict", keys |-> {}, error |-> NoError,
   revision |-> 0, list_ids |-> <<>>, items |-> <<>>,
   list_id |-> 0, public |-> PyFalse]

\* no content: response.json() cannot parse it
EmptyBody ==
  [type |-> "nojson", keys |-> {}, error |-> NoError,
   revision |-> 0, list_ids |-> <<>>, items |-> <<>>,
   list_id |-> 0, public |-> PyFalse]

StaleMessage == "Revision number is incorrect."

ConflictError == [keys |-> {"type", "revision_conflict", "message"},
                  message |-> "There is a conflict with the given data."]
NotFoundError == [keys |-> {"type", "message"},
                  message |-> "The resource you requested could not be found."]
MissingError == [keys |-> {"type", "message"},
                 message |-> "You are missing required parameters."]

\* errors the service may answer any request with
ServerErrors ==
  {[status |-> 401, error |-> [keys |-> {"type", "message"},
                                message |-> "You are not authorized."]],
   [status |-> 500, error |-> [keys |-> {"type", "message"},
                                message |-> StaleMessage]],
   [status |-> 500, error |-> [keys |-> {"type"}, message |-> ""]]}

(* ----------------------------- the service ---------------------------- *)

KindOf(path) ==
  CASE path = "lists" -> "list"
    [] path = "folders" -> "folder"
    [] path = "tasks" -> "task"
    [] path = "subtasks" -> "subtask"
    [] path = "notes" -> "note"

Revision(kind) == IF kind = "folder" THEN folder.revision ELSE resource

Answer(status, body, f, r, fault) ==
  [response |-> [status_code |-> status, body |-> body],
   folder |-> f, resource |-> r, fault |-> fault]

Rejected(status, e) == Answer(status, ErrorBody(e), folder, resource, FALSE)

\* what the service may hold: the lists of the user, the notes of a list
\* or task, and the other collections
ListCollections ==
  {<<>>, <<ListItem(1, "Groceries")>>,
   <<ListItem(1, "Groceries"), ListItem(2, "Work")>>,
   <<ListItem(1, "Groceries"), ListItem(2, "Work"), ListItem(3, "Groceries")>>}
NoteCollections ==
  {<<>>, <<NoteItem(5, 2)>>, <<NoteItem(5, 2), NoteItem(6, 1)>>,
   <<NoteItem(6, 1), NoteItem(7, 1)>>}
Collections == {<<>>, <<Item({"id", "task_id"}, 1, "", 1)>>}

\* arrays whose elements are not records of the collection
OddCollections == {<<ErrorItem>>, <<NoteItem(6, 1), ErrorItem>>}

CollectionsOf(kind) ==
  CASE kind = "list" -> ListCollections
    [] kind = "note" -> NoteCollections
    [] OTHER -> Collections

ServeGet(request) ==
  LET kind == KindOf(request.url.path) IN
  IF request.url.id = 0
  THEN {Answer(200, ListBody(items), folder, resource, FALSE) :
          items \in CollectionsOf(kind)}
       \cup {Answer(200, ListBody(items), folder, resource, TRUE) :
                items \in OddCollections}
  ELSE IF kind = "folder" /\ ~folder.exists
  THEN {Rejected(404, NotFoundError)}
  ELSE IF kind = "task"
  THEN {Answer(200, TaskBody(resource, l), folder, resource, FALSE) : l \in ListIds}
  ELSE {Answer(200, DictBody(kind, Revision(kind),
                             IF kind = "folder" THEN folder.list_ids ELSE <<>>),
               folder, resource, FALSE)}

ServePost(request) ==
  LET kind == KindOf(request.url.path)
      payload == json_loads(request.data)
  IN {Answer(201, DictBody(kind, 1,
                           IF kind = "folder" THEN payload.list_ids ELSE <<>>),
             folder, resource, FALSE)}

ServePatch(request) ==
  LET kind == KindOf(request.url.path)
      payload == json_loads(request.data)
  IN
  IF kind = "folder" /\ ~folder.exists
  THEN {Rejected(404, NotFoundError)}
  ELSE IF "revision" \notin DOMAIN payload
  THEN {Rejected(422, MissingError)}
  ELSE IF payload.revision # Revision(kind)
  THEN {Rejected(409, ConflictError)}
  ELSE IF kind = "folder"
  THEN LET lids == IF "list_ids" \in DOMAIN payload
                   THEN payload.list_ids ELSE folder.list_ids
           f == [folder EXCEPT !.revision = @ + 1, !.list_ids = lids]
       IN {Answer(200, DictBody(kind, f.revision, f.list_ids), f, resource, FALSE)}
  ELSE IF kind = "list" /\ "public" \in DOMAIN payload
  THEN {Answer(200, ListRecord(resource + 1, public), folder, resource + 1, FALSE) :
          public \in {PyTrue, PyFalse}}
  ELSE {Answer(200, DictBody(kind, resource + 1, <<>>), folder, resource + 1, FALSE)}

\* the revision of a DELETE travels in the query, as text or as a number
QueryRevision(request) ==
  IF request.url.path \in {"folders", "tasks"}
  THEN int(request.params.revision)
  ELSE request.params.revision

\* the body that comes with 204 is empty; a body of {} is kept as the
\* other case of a successful delete
DeletedBodies == {EmptyBody, EmptyDict}

ServeDelete(request) ==
  LET kind == KindOf(request.url.path) IN
  IF kind = "folder" /\ ~folder.exists
  THEN {Rejected(404, NotFoundError)}
  ELSE IF QueryRevision(request) # Revision(kind)
  THEN {Rejected(409, ConflictError)}
  ELSE {Answer(NoContent, body,
               IF kind = "folder" THEN [folder EXCEPT !.exists = FALSE] ELSE folder,
               resource, FALSE) : body \in DeletedBodies}

Server(request) ==
  {Answer(e.status, ErrorBody(e.error), folder, resource, TRUE) : e \in ServerErrors}
  \cup (CASE request.verb = "GET" -> ServeGet(request)
          [] request.verb = "POST" -> ServePost(request)
          [] request.verb = "PATCH" -> ServePatch(request)
          [] request.verb = "DELETE" -> ServeDelete(request))

(* ------------------------------ the client ---------------------------- *)

Url(scheme, path, id) == [scheme |-> scheme, path |-> path, id |-> id]

Request(verb, url, headers, data, params) ==
  [verb |-> verb, url |-> url, headers |-> headers, data |-> data, params |-> params]

\* __init__
Headers(oauth_token, client_id) ==
  [plain |-> ("X-Access-Token" :> oauth_token) @@ ("X-Client-ID" :> client_id),
   payload |-> ("X-Access-Token" :> oauth_token) @@ ("X-Client-ID" :> client_id)
               @@ ("Content-Type" :> "application/json")]

\* _check_title with the limit off by one
_check_title_lax(title) == title.len > MaxTitleLen + 1

\* _check_title: does it raise
_check_title(title) == title.len > MaxTitleLen

TitleError == Raised("ValueError", "Title is too long (255 char max).")

\* _check_response without the test for a revision conflict
_check_response_no_conflict(response) ==
  LET jres == response.body IN
  IF jres.type = "nojson" THEN Exc("JSONDecodeError", "Expecting value")
  ELSE IF jres.type = "list" THEN NoExc
  ELSE IF "error" \in jres.keys
  THEN IF "message" \in jres.error.keys
       THEN Exc("ValueError", jres.error.message)
       ELSE Exc("KeyError", "message")
  ELSE NoExc

\* _check_response looking for an error key in the elements of a list
_check_response_elements(response) ==
  LET jres == response.body IN
  IF jres.type = "nojson" THEN Exc("JSONDecodeError", "Expecting value")
  ELSE IF jres.type = "list"
  THEN IF \E i \in 1..Len(jres.items) : "error" \in jres.items[i].keys
       THEN Exc("ValueError", "error") ELSE NoExc
  ELSE IF "error" \in jres.keys
  THEN IF "revision_conflict" \in jres.error.keys
       THEN Exc("ValueError", StaleMessage)
       ELSE IF "message" \in jres.error.keys
       THEN Exc("ValueError", jres.error.message)
       ELSE Exc("KeyError", "message")
  ELSE NoExc

\* _check_response: the exception it raises, if any
_check_response(response) ==
  LET jres == response.body IN
  IF jres.type = "nojson" THEN Exc("JSONDecodeError", "Expecting value")
  ELSE IF jres.type = "list" THEN NoExc
  ELSE IF "error" \in jres.keys
  THEN IF "revision_conflict" \in jres.error.keys
       THEN Exc("ValueError", StaleMessage)
       ELSE IF "message" \in jres.error.keys
       THEN Exc("ValueError", jres.error.message)
       ELSE Exc("KeyError", "message")
  ELSE NoExc

Goto(label, url, kwargs, then, locals) ==
  /\ pc' = label
  /\ frame' = [url |-> url, kwargs |-> kwargs, then |-> then, locals |-> locals]
  /\ outcome' = NoOutcome

Finish(o) ==
  /\ pc' = "done"
  /\ frame' = frame
  /\ outcome' = o

NoFrame == [url |-> Url("", "", 0), kwargs |-> NoKwargs, then |-> "", locals |-> <<>>]

(* --------------------------- argument sets ---------------------------- *)

\* the keyword arguments of a call: some of a with some of b
Kw(a, b) == {x @@ y : x \in a, y \in b}

TitleKw == {NoKwargs} \cup {[title |-> t] : t \in Titles}
RevisionKw == {NoKwargs} \cup {[revision |-> r] : r \in Revs}
ListIdsKw == {NoKwargs} \cup {[list_ids |-> l] : l \in {<<2>>}}
ListIdKw == {NoKwargs} \cup {[list_id |-> i] : i \in Ids}
TaskIdKw == {NoKwargs} \cup {[task_id |-> i] : i \in Ids}
StarredKw == {NoKwargs, [starred |-> TRUE]}

(* ------------------------------- calls -------------------------------- *)

\* a method is called: the resource it addresses is in an arbitrary state
Enter(op, kind, args) ==
  /\ pc = "idle"
  /\ call' = [op |-> op, kind |-> kind, args |-> args, before |-> folder.list_ids]
  /\ resource' \in (IF kind \in {"list", "task", "subtask", "note"} /\ op \notin
                       {"make_list", "make_task", "make_subtask", "make_note",
                        "get_subtasks", "get_notes", "list_ids"}
                    THEN Revs ELSE {0})
  /\ UNCHANGED <<headers_plain, headers_payload, credentials, folder, log, ext, prev>>

\* the folder's revision stays within MaxRev
FolderRoom == folder.revision < MaxRev

\* the calls of the transport helpers
get(url, kwargs, then, locals) == Goto("_get", url, kwargs, then, locals)
post(url, payload) == Goto("_post", url, [payload |-> payload], "return", <<>>)
patch(url, payload) == Goto("_patch", url, [payload |-> payload], "return", <<>>)
delete(url, params) == Goto("_delete", url, [params |-> params], "return", <<>>)

get_list(list_id, then, locals) ==
  get(Url("https", "lists", list_id), NoKwargs, then, locals)
get_folder(folder_id, then, locals) ==
  get(Url("http", "folders", folder_id), NoKwargs, then, locals)
get_task(task_id, then, locals) ==
  get(Url("http", "tasks", task_id), NoKwargs, then, locals)
get_subtask(subtask_id, then, locals) ==
  get(Url("https", "subtasks", subtask_id), NoKwargs, then, locals)
get_note(note_id, then, locals) ==
  get(Url("https", "notes", note_id), NoKwargs, then, locals)

\* list_revision returning the revision after the one read
list_revision_next(jres) == jres.revision + 1

\* ['revision'] of the record read
list_revision(jres) == jres.revision
folder_revision(jres) == jres.revision
task_revision(jres) == jres.revision
subtask_revision(jres) == jres.revision
note_revision(jres) == jres.revision

(* lists *)

\* update_list fetching the revision although one was given
update_list_refetch ==
  \E list_id \in Ids, kwargs \in Kw(TitleKw, RevisionKw) :
    /\ Enter("update_list", "list", [id |-> list_id, kwargs |-> kwargs])
    /\ IF "title" \in DOMAIN kwargs /\ _check_title(kwargs.title)
       THEN Finish(TitleError)
       ELSE get_list(list_id, "update_list", [id |-> list_id, kwargs |-> kwargs])

update_list ==
  \E list_id \in Ids, kwargs \in Kw(TitleKw, RevisionKw) :
    /\ Enter("update_list", "list", [id |-> list_id, kwargs |-> kwargs])
    /\ IF "title" \in DOMAIN kwargs /\ _check_title(kwargs.title)
       THEN Finish(TitleError)
       ELSE IF "revision" \notin DOMAIN kwargs
       THEN get_list(list_id, "update_list", [id |-> list_id, kwargs |-> kwargs])
       ELSE patch(Url("http", "lists", list_id), kwargs)

update_list_revision(l, jres) ==
  patch(Url("http", "lists", l.id), l.kwargs @@ [revision |-> list_revision(jres)])

make_list ==
  \E title \in Titles :
    /\ Enter("make_list", "list", [title |-> title])
    /\ IF _check_title(title)
       THEN Finish(TitleError)
       ELSE post(Url("http", "lists", 0), [title |-> title])

delete_list ==
  \E list_id \in Ids, kw \in RevisionKw :
    /\ Enter("delete_list", "list", [id |-> list_id, kwargs |-> kw])
    /\ IF "revision" \notin DOMAIN kw
       THEN get_list(list_id, "delete_list", [id |-> list_id])
       ELSE delete(Url("http", "lists", list_id), [revision |-> kw.revision])

delete_list_revision(l, jres) ==
  delete(Url("http", "lists", l.id), [revision |-> list_revision(jres)])

(* folders *)

make_folder ==
  \E title \in Titles, list_ids \in {<<>>, <<1>>} :
    /\ Enter("make_folder", "folder", [title |-> title, list_ids |-> list_ids])
    /\ IF _check_title(title)
       THEN Finish(TitleError)
       ELSE post(Url("http", "folders", 0), [title |-> title, list_ids |-> list_ids])

update_folder_body(folder_id, kwargs) ==
  IF "title" \in DOMAIN kwargs /\ _check_title(kwargs.title)
  THEN Finish(TitleError)
  ELSE IF "revision" \notin DOMAIN kwargs
  THEN get_folder(folder_id, "update_folder", [id |-> folder_id, kwargs |-> kwargs])
  ELSE patch(Url("http", "folders", folder_id), kwargs)

update_folder ==
  \E folder_id \in Ids, kwargs \in Kw(Kw(TitleKw, RevisionKw), ListIdsKw) :
    /\ FolderRoom
    /\ Enter("update_folder", "folder", [id |-> folder_id, kwargs |-> kwargs])
    /\ update_folder_body(folder_id, kwargs)

update_folder_revision(l, jres) ==
  patch(Url("http", "folders", l.id), l.kwargs @@ [revision |-> folder_revision(jres)])

delete_folder ==
  \E folder_id \in Ids, kw \in RevisionKw :
    /\ Enter("delete_folder", "folder", [id |-> folder_id, kwargs |-> kw])
    /\ IF "revision" \notin DOMAIN kw
       THEN get_folder(folder_id, "delete_folder", [id |-> folder_id])
       ELSE delete(Url("http", "folders", folder_id), [revision |-> str(kw.revision)])

delete_folder_revision(l, jres) ==
  delete(Url("http", "folders", l.id), [revision |-> str(folder_revision(jres))])

(* tasks *)

make_task ==
  \E list_id \in Ids, title \in Titles, kwargs \in StarredKw :
    /\ Enter("make_task", "task", [list_id |-> list_id, title |-> title, kwargs |-> kwargs])
    /\ IF _check_title(title)
       THEN Finish(TitleError)
       ELSE post(Url("https", "tasks", 0), kwargs @@ [list_id |-> list_id, title |-> title])

update_task ==
  \E task_id \in Ids, kwargs \in Kw(TitleKw, RevisionKw) :
    /\ Enter("update_task", "task", [id |-> task_id, kwargs |-> kwargs])
    /\ IF "title" \in DOMAIN kwargs /\ _check_title(kwargs.title)
       THEN Finish(TitleError)
       ELSE IF "revision" \notin DOMAIN kwargs
       THEN get_task(task_id, "update_task", [id |-> task_id, kwargs |-> kwargs])
       ELSE patch(Url("http", "tasks", task_id), kwargs)

update_task_revision(l, jres) ==
  patch(Url("http", "tasks", l.id), l.kwargs @@ [revision |-> task_revision(jres)])

delete_task ==
  \E task_id \in Ids, kw \in RevisionKw :
    /\ Enter("delete_task", "task", [id |-> task_id, kwargs |-> kw])
    /\ IF "revision" \notin DOMAIN kw
       THEN get_task(task_id, "delete_task", [id |-> task_id])
       ELSE delete(Url("http", "tasks", task_id), [revision |-> str(kw.revision)])

delete_task_revision(l, jres) ==
  delete(Url("http", "tasks", l.id), [revision |-> str(task_revision(jres))])

(* subtasks *)

get_subtasks ==
  \E kw \in Kw(ListIdKw, TaskIdKw), completed \in BOOLEAN :
    /\ Enter("get_subtasks", "subtask", [kwargs |-> kw, completed |-> completed])
    /\ IF "list_id" \notin DOMAIN kw /\ "task_id" \notin DOMAIN kw
       THEN Finish(Raised("TypeError",
                   "get_subtasks requires exactly one of list_id or task_id."))
       ELSE IF "list_id" \in DOMAIN kw /\ "task_id" \in DOMAIN kw
       THEN Finish(Raised("TypeError",
                   "get_subtasks requires exactly one of list_id or task_id."))
       ELSE LET scope == IF "task_id" \notin DOMAIN kw
                         THEN [list_id |-> kw.list_id]
                         ELSE [task_id |-> kw.task_id]
                params == IF completed THEN scope @@ [completed |-> TRUE] ELSE scope
            IN get(Url("http", "subtasks", 0), [params |-> params], "return", <<>>)

make_subtask ==
  \E task_id \in Ids, title \in Titles, completed \in BOOLEAN :
    /\ Enter("make_subtask", "subtask",
             [task_id |-> task_id, title |-> title, completed |-> completed])
    /\ IF _check_title(title)
       THEN Finish(TitleError)
       ELSE post(Url("https", "subtasks", 0),
                 IF completed
                 THEN [task_id |-> task_id, title |-> title, completed |-> TRUE]
                 ELSE [task_id |-> task_id, title |-> title])

update_subtask ==
  \E subtask_id \in Ids, kwargs \in Kw(TitleKw, RevisionKw) :
    /\ Enter("update_subtask", "subtask", [id |-> subtask_id, kwargs |-> kwargs])
    /\ IF "title" \in DOMAIN kwargs /\ _check_title(kwargs.title)
       THEN Finish(TitleError)
       ELSE IF "revision" \notin DOMAIN kwargs
       THEN get_subtask(subtask_id, "update_subtask", [id |-> subtask_id, kwargs |-> kwargs])
       ELSE patch(Url("http", "subtasks", subtask_id), kwargs)

update_subtask_revision(l, jres) ==
  patch(Url("http", "subtasks", l.id), l.kwargs @@ [revision |-> subtask_revision(jres)])

delete_subtask ==
  \E subtask_id \in Ids, kw \in RevisionKw :
    /\ Enter("delete_subtask", "subtask", [id |-> subtask_id, kwargs |-> kw])
    /\ IF "revision" \notin DOMAIN kw
       THEN get_subtask(subtask_id, "delete_subtask", [id |-> subtask_id])
       ELSE delete(Url("http", "subtasks", subtask_id), [revision |-> kw.revision])

delete_subtask_revision(l, jres) ==
  delete(Url("http", "subtasks", l.id), [revision |-> subtask_revision(jres)])

(* notes *)

\* get_notes taking list_id when both scopes are given
get_notes_both ==
  \E kw \in Kw(ListIdKw, TaskIdKw) :
    /\ Enter("get_notes", "note", [kwargs |-> kw])
    /\ IF "list_id" \notin DOMAIN kw /\ "task_id" \notin DOMAIN kw
       THEN Finish(Raised("TypeError",
                   "get_notes requires exactly one of list_id or task_id."))
       ELSE LET params == IF "list_id" \in DOMAIN kw
                          THEN [list_id |-> kw.list_id]
                          ELSE [task_id |-> kw.task_id]
            IN get(Url("http", "notes", 0), [params |-> params], "return", <<>>)

get_notes ==
  \E kw \in Kw(ListIdKw, TaskIdKw) :
    /\ Enter("get_notes", "note", [kwargs |-> kw])
    /\ IF "list_id" \notin DOMAIN kw /\ "task_id" \notin DOMAIN kw
       THEN Finish(Raised("TypeError",
                   "get_notes requires exactly one of list_id or task_id."))
       ELSE IF "list_id" \in DOMAIN kw /\ "task_id" \in DOMAIN kw
       THEN Finish(Raised("TypeError",
                   "get_notes requires exactly one of list_id or task_id."))
       ELSE LET params == IF "task_id" \notin DOMAIN kw
                          THEN [list_id |-> kw.list_id]
                          ELSE [task_id |-> kw.task_id]
            IN get(Url("http", "notes", 0), [params |-> params], "return", <<>>)

make_note ==
  \E task_id \in Ids, content \in Contents :
    /\ Enter("make_note", "note", [task_id |-> task_id, content |-> content])
    /\ post(Url("https", "notes", 0), [task_id |-> task_id, content |-> content])

update_note ==
  \E note_id \in Ids, content \in Contents, kw \in RevisionKw :
    /\ Enter("update_note", "note", [id |-> note_id, content |-> content, kwargs |-> kw])
    /\ IF "revision" \notin DOMAIN kw
       THEN get_note(note_id, "update_note", [id |-> note_id, content |-> content])
       ELSE patch(Url("http", "notes", note_id),
                  [revision |-> kw.revision, content |-> content])

update_note_revision(l, jres) ==
  patch(Url("http", "notes", l.id),
        [revision |-> note_revision(jres), content |-> l.content])

delete_note ==
  \E note_id \in Ids, kw \in RevisionKw :
    /\ Enter("delete_note", "note", [id |-> note_id, kwargs |-> kw])
    /\ IF "revision" \notin DOMAIN kw
       THEN get_note(note_id, "delete_note", [id |-> note_id])
       ELSE delete(Url("http", "notes", note_id), [revision |-> kw.revision])

delete_note_revision(l, jres) ==
  delete(Url("http", "notes", l.id), [revision |-> note_revision(jres)])

(* special methods *)

\* list_ids.append(list_id) without the membership test
Merged_always(list_ids, list_id) == Append(list_ids, list_id)

\* list_ids.append(list_id) unless it is in list_ids
Merged(list_ids, list_id) ==
  IF list_id \notin Range(list_ids) THEN Append(list_ids, list_id) ELSE list_ids

add_to_folder ==
  \E list_id \in ListIds, folder_id \in Ids :
    /\ FolderRoom
    /\ Enter("add_to_folder", "folder", [list_id |-> list_id, id |-> folder_id])
    /\ get_folder(folder_id, "add_to_folder", [list_id |-> list_id, id |-> folder_id])

\* add_to_folder writing the new id alone
add_to_folder_only_new(l, jres) ==
  update_folder_body(l.id, [list_ids |-> <<l.list_id>>])

\* add_to_folder passing on the revision of the folder it read
add_to_folder_same_revision(l, jres) ==
  update_folder_body(l.id, [list_ids |-> Merged(jres.list_ids, l.list_id),
                            revision |-> jres.revision])

add_to_folder_list_ids(l, jres) ==
  update_folder_body(l.id, [list_ids |-> Merged(jres.list_ids, l.list_id)])

ListTitles == {"Groceries", "Chores"}
ListTitleKw == {NoKwargs} \cup {[title |-> t] : t \in ListTitles}

\* list_ids keeping the first list of a title
TitleDict_first(lists, n) ==
  [t \in {lists[i].title : i \in 1..n} |->
     lists[CHOOSE i \in 1..n :
             lists[i].title = t /\ \A j \in 1..n : lists[j].title = t => i <= j].id]

\* list_ids after the loop over the first n lists: a later list with the
\* title of an earlier one takes its place
RECURSIVE TitleDict(_, _)
TitleDict(lists, n) ==
  IF n = 0 THEN <<>>
  ELSE (lists[n].title :> lists[n].id) @@ TitleDict(lists, n - 1)

list_ids ==
  \E kw \in ListTitleKw :
    /\ Enter("list_ids", "list", [kwargs |-> kw])
    /\ get(Url("https", "lists", 0), NoKwargs, "list_ids", [kwargs |-> kw])

list_ids_loop(l, jres) ==
  LET lists == jres.items
      odd == {n \in 1..Len(lists) : ~({"id", "title"} \subseteq lists[n].keys)}
      dict == TitleDict(lists, Len(lists))
  IN
  IF odd # {}
  THEN LET n == CHOOSE m \in odd : \A k \in odd : m <= k
       IN Finish(Raised("KeyError", IF "id" \notin lists[n].keys THEN "id" ELSE "title"))
  ELSE IF "title" \in DOMAIN l.kwargs
  THEN IF l.kwargs.title \in DOMAIN dict
       THEN Finish(Returned(dict[l.kwargs.title]))
       ELSE Finish(Raised("KeyError", l.kwargs.title))
  ELSE Finish(Returned(dict))

get_note_id ==
  \E task_id \in Ids :
    /\ Enter("get_note_id", "task", [id |-> task_id])
    /\ get_task(task_id, "get_note_id", [task_id |-> task_id])

\* get_notes(list_id=list_id) for the list that owns the task
get_note_id_notes(l, jres) ==
  get(Url("http", "notes", 0), [params |-> [list_id |-> jres.list_id]],
      "get_note_id_notes", l)

NoNoteMessage == "No note_id found for the given task_id."

\* the loop of get_note_id without the comparison of task ids
NoteScan_any(notes, n, task_id) ==
  IF n > Len(notes) THEN Raised("KeyError", NoNoteMessage)
  ELSE Returned(notes[n].id)

\* the loop of get_note_id from the n-th note on
RECURSIVE NoteScan(_, _, _)
NoteScan(notes, n, task_id) ==
  IF n > Len(notes) THEN Raised("KeyError", NoNoteMessage)
  ELSE IF "task_id" \notin notes[n].keys THEN Raised("KeyError", "task_id")
  ELSE IF notes[n].task_id = task_id
  THEN IF "id" \notin notes[n].keys THEN Raised("KeyError", "id")
       ELSE Returned(notes[n].id)
  ELSE NoteScan(notes, n + 1, task_id)

get_note_id_loop(l, jres) == Finish(NoteScan(jres.items, 1, l.task_id))

make_list_public ==
  \E list_id \in Ids, kw \in RevisionKw :
    /\ Enter("make_list_public", "list", [id |-> list_id, kwargs |-> kw])
    /\ Goto("_patch", Url("http", "lists", list_id),
            [payload |-> [public |-> PyTrue] @@ kw], "make_list_public", <<>>)

make_list_public_result(l, is_public) ==
  IF "public" \notin is_public.keys THEN Finish(Raised("KeyError", "public"))
  ELSE Finish(Returned(is_public.public = StrTrue))

(* ------------------------ the transport helpers ----------------------- *)

\* the code that runs once the pending request has returned `value`
Continue(value) ==
  LET l == frame.locals IN
  CASE frame.then = "return" -> Finish(Returned(value))
    [] frame.then = "update_list" -> update_list_revision(l, value)
    [] frame.then = "delete_list" -> delete_list_revision(l, value)
    [] frame.then = "update_folder" -> update_folder_revision(l, value)
    [] frame.then = "delete_folder" -> delete_folder_revision(l, value)
    [] frame.then = "update_task" -> update_task_revision(l, value)
    [] frame.then = "delete_task" -> delete_task_revision(l, value)
    [] frame.then = "update_subtask" -> update_subtask_revision(l, value)
    [] frame.then = "delete_subtask" -> delete_subtask_revision(l, value)
    [] frame.then = "update_note" -> update_note_revision(l, value)
    [] frame.then = "delete_note" -> delete_note_revision(l, value)
    [] frame.then = "add_to_folder" -> add_to_folder_list_ids(l, value)
    [] frame.then = "list_ids" -> list_ids_loop(l, value)
    [] frame.then = "get_note_id" -> get_note_id_notes(l, value)
    [] frame.then = "get_note_id_notes" -> get_note_id_loop(l, value)
    [] frame.then = "make_list_public" -> make_list_public_result(l, value)

\* the request goes out and the service answers it
Exchange(request, answer) ==
  /\ answer \in Server(request)
  /\ folder' = answer.folder
  /\ resource' = answer.resource
  /\ log' = Append(log, [request |-> request, response |-> answer.response,
                         fault |-> answer.fault, at |-> folder])
  /\ UNCHANGED <<headers_plain, headers_payload, credentials, call, ext, prev>>

\* the headers and the body a helper with keyword arguments sends
KwHeaders_always_payload(kwargs) == headers_payload
KwHeaders(kwargs) ==
  IF "payload" \in DOMAIN kwargs THEN headers_payload ELSE headers_plain
KwData(kwargs) ==
  IF "payload" \in DOMAIN kwargs THEN json_dumps(kwargs.payload) ELSE NoData
KwParams(kwargs) ==
  IF "params" \in DOMAIN kwargs THEN kwargs.params ELSE NoParams

\* _get going on with whatever body came back
_get_lenient ==
  /\ pc = "_get"
  /\ LET request == Request("GET", frame.url, KwHeaders(frame.kwargs),
                            KwData(frame.kwargs), KwParams(frame.kwargs))
     IN \E answer \in Server(request) :
          /\ Exchange(request, answer)
          /\ Continue(answer.response.body)

_get ==
  /\ pc = "_get"
  /\ LET request == Request("GET", frame.url, KwHeaders(frame.kwargs),
                            KwData(frame.kwargs), KwParams(frame.kwargs))
     IN \E answer \in Server(request) :
          /\ Exchange(request, answer)
          /\ LET e == _check_response(answer.response) IN
             IF e.raised THEN Finish(Raised(e.exc, e.msg))
             ELSE Continue(answer.response.body)

_post ==
  /\ pc = "_post"
  /\ LET request == Request("POST", frame.url, KwHeaders(frame.kwargs),
                            KwData(frame.kwargs), KwParams(frame.kwargs))
     IN \E answer \in Server(request) :
          /\ Exchange(request, answer)
          /\ LET e == _check_response(answer.response) IN
             IF e.raised THEN Finish(Raised(e.exc, e.msg))
             ELSE Continue(answer.response.body)

_patch ==
  /\ pc = "_patch"
  /\ LET request == Request("PATCH", frame.url, headers_payload,
                            json_dumps(frame.kwargs.payload), NoParams)
     IN \E answer \in Server(request) :
          /\ Exchange(request, answer)
          /\ LET e == _check_response(answer.response) IN
             IF e.raised THEN Finish(Raised(e.exc, e.msg))
             ELSE Continue(answer.response.body)

_delete ==
  /\ pc = "_delete"
  /\ LET request == Request("DELETE", frame.url, KwHeaders(frame.kwargs),
                            KwData(frame.kwargs), KwParams(frame.kwargs))
     IN \E answer \in Server(request) :
          /\ Exchange(request, answer)
          /\ LET e == _check_response(answer.response) IN
             IF e.raised THEN Finish(Raised(e.exc, e.msg))
             ELSE Continue(answer.response.status_code = NoContent)

(* --------------------------- the environment -------------------------- *)

\* what another client may make of the folder's lists
OtherLists(lids) ==
  {Append(lids, i) : i \in ListIds \ Range(lids)}
  \cup {SelectSeq(lids, LAMBDA j : j # i) : i \in Range(lids)}

NoPrev == [list_id |-> 0, list_ids |-> <<>>]

\* another client writes the folder, or the resource the call addresses
ExternalWrite ==
  /\ pc \notin {"done"}
  /\ \/ /\ folder.exists /\ FolderRoom
        /\ pc = "idle" \/ (call.kind = "folder" /\ ext < MaxExt)
        /\ \E l \in OtherLists(folder.list_ids) :
             folder' = [folder EXCEPT !.revision = @ + 1, !.list_ids = l]
        /\ resource' = resource
     \/ /\ pc # "idle" /\ resource # 0 /\ ext < MaxExt
        /\ resource' = resource + 1
        /\ folder' = folder
  /\ ext' = IF pc = "idle" THEN ext ELSE ext + 1
  /\ prev' = IF pc = "idle" THEN NoPrev ELSE prev
  /\ UNCHANGED <<headers_plain, headers_payload, credentials, pc, call, frame,
                 log, outcome>>

NoCall == [op |-> "", kind |-> "", args |-> <<>>, before |-> <<>>]

\* the call hands its outcome to the caller
Return ==
  /\ pc = "done"
  /\ pc' = "idle"
  /\ prev' = IF call.op = "add_to_folder" /\ outcome.status = "return"
             THEN [list_id |-> call.args.list_id, list_ids |-> folder.list_ids]
             ELSE NoPrev
  /\ call' = NoCall /\ frame' = NoFrame /\ log' = <<>> /\ outcome' = NoOutcome
  /\ ext' = 0 /\ resource' = 0
  /\ UNCHANGED <<headers_plain, headers_payload, credentials, folder>>

Init ==
  /\ \E oauth_token \in Tokens, client_id \in ClientIds :
       /\ credentials = [oauth_token |-> oauth_token, client_id |-> client_id]
       /\ headers_plain = Headers(oauth_token, client_id).plain
       /\ headers_payload = Headers(oauth_token, client_id).payload
  /\ folder \in {[exists |-> TRUE, revision |-> 1, list_ids |-> l] : l \in {<<>>, <<1>>}}
  /\ resource = 0
  /\ pc = "idle" /\ call = NoCall /\ frame = NoFrame /\ log = <<>>
  /\ outcome = NoOutcome /\ ext = 0 /\ prev = NoPrev

Next ==
  \/ update_list \/ make_list \/ delete_list
  \/ make_folder \/ update_folder \/ delete_folder
  \/ make_task \/ update_task \/ delete_task
  \/ get_subtasks \/ make_subtask \/ update_subtask \/ delete_subtask
  \/ get_notes \/ make_note \/ update_note \/ delete_note
  \/ add_to_folder \/ list_ids \/ get_note_id \/ make_list_public
  \/ _get \/ _post \/ _patch \/ _delete
  \/ ExternalWrite \/ Return

Spec == Init /\ [][Next]_vars

(* ------------------------------ properties ---------------------------- *)

Done == pc = "done"
Requests == Len(log)
LastEntry == log[Len(log)]

MakeTitleOps == {"make_list", "make_folder", "make_task", "make_subtask"}
UpdateTitleOps == {"update_list", "update_folder", "update_task", "update_subtask"}
UpdateOps == UpdateTitleOps \cup {"update_note"}
DeleteOps == {"delete_list", "delete_folder", "delete_task", "delete_subtask",
              "delete_note"}

\* the title the call in progress was given, if any
TitleArgs ==
  IF call.op \in MakeTitleOps THEN {call.args.title}
  ELSE IF call.op \in UpdateTitleOps /\ "title" \in DOMAIN call.args.kwargs
  THEN {call.args.kwargs.title}
  ELSE {}

LongTitle == \E t \in TitleArgs : t.len > 255
RevisionGiven == "revision" \in DOMAIN call.args.kwargs

\* the error kinds of the specification, as the exceptions of the code
IsTitleError(o) ==
  o.status = "raise" /\ o.exc = "ValueError" /\ o.msg = "Title is too long (255 char max)."
IsStaleRevision(o) ==
  o.status = "raise" /\ o.exc = "ValueError" /\ o.msg = "Revision number is incorrect."

HasError(body) == body.type = "dict" /\ "error" \in body.keys
IsConflict(body) == HasError(body) /\ "revision_conflict" \in body.error.keys

\* C1: a create or update call given a title longer than 255 characters
\* fails with the title ValueError and has issued no request, whether or not
\* a revision was given.
C1_LongTitleFailsBeforeAnyRequest ==
  LongTitle => Done /\ IsTitleError(outcome) /\ Requests = 0

C1_Witness ==
  /\ Done /\ call.op = "update_list" /\ LongTitle /\ ~RevisionGiven
  /\ IsTitleError(outcome) /\ Requests = 0

\* the verb that writes for the call in progress
WriteVerb == IF call.op \in UpdateOps THEN "PATCH" ELSE "DELETE"

SameResource(r, w) == r.url.path = w.url.path /\ r.url.id = w.url.id

IsReadThenWrite ==
  /\ Requests = 2
  /\ log[1].request.verb = "GET"
  /\ log[2].request.verb = WriteVerb
  /\ SameResource(log[1].request, log[2].request)
  /\ log[1].request.url.id = call.args.id
  /\ KindOf(log[1].request.url.path) = call.kind

IsWriteOnly ==
  /\ Requests = 1
  /\ log[1].request.verb = WriteVerb
  /\ log[1].request.url.id = call.args.id
  /\ KindOf(log[1].request.url.path) = call.kind

\* C2 as stated: every finished update or delete call has issued exactly one
\* request (the write) when a revision was given and exactly two (a read of
\* the resource, then the write) when it was not.
C2_Original ==
  Done /\ call.op \in UpdateOps \cup DeleteOps =>
    IF RevisionGiven THEN IsWriteOnly ELSE IsReadThenWrite

\* C2 amended: a finished update or delete call whose title passed the length
\* check has issued exactly the write when a revision was given; when it was
\* not, it has issued a read of the resource first, then the write and nothing
\* else if the read succeeded, and nothing more if the read failed.
C2_RequestsOfUpdateAndDelete ==
  Done /\ call.op \in UpdateOps \cup DeleteOps /\ ~LongTitle =>
    IF RevisionGiven THEN IsWriteOnly
    ELSE IF HasError(log[1].response.body)
    THEN /\ Requests = 1
         /\ log[1].request.verb = "GET"
         /\ log[1].request.url.id = call.args.id
         /\ KindOf(log[1].request.url.path) = call.kind
    ELSE IsReadThenWrite

C2_Witness ==
  /\ Done /\ call.op = "delete_note" /\ ~RevisionGiven /\ IsReadThenWrite
  /\ outcome.status = "return"

C4_DeleteAnswered204ReturnsTrue ==
  /\ Done /\ call.op \in DeleteOps /\ Requests > 0
  /\ LastEntry.request.verb = "DELETE"
  /\ LastEntry.response.status_code = 204
  => outcome.status = "return" /\ outcome.value = TRUE

ScopeKeys == {"list_id", "task_id"}

\* C5: get_subtasks and get_notes given both list_id and task_id, or neither,
\* fail with the TypeError of the method and issue no request; given exactly
\* one they issue one GET whose query has that scope, with the value given,
\* and not the other.
C5_ExactlyOneScope ==
  call.op \in {"get_subtasks", "get_notes"} =>
    LET given == DOMAIN call.args.kwargs IN
    IF Cardinality(given) # 1
    THEN /\ Done /\ Requests = 0
         /\ outcome.status = "raise" /\ outcome.exc = "TypeError"
    ELSE /\ pc = "_get" => Requests = 0
         /\ Done =>
              /\ Requests = 1
              /\ log[1].request.verb = "GET"
              /\ KindOf(log[1].request.url.path) = call.kind
              /\ DOMAIN log[1].request.params \cap ScopeKeys = given
              /\ \A k \in given : log[1].request.params[k] = call.args.kwargs[k]

C5_Witness ==
  /\ Done /\ call.op = "get_subtasks" /\ DOMAIN call.args.kwargs = {"task_id"}
  /\ call.args.completed
  /\ Requests = 1 /\ DOMAIN log[1].request.params = {"task_id", "completed"}
  /\ outcome.status = "return"

NoFault == \A i \in 1..Len(log) : ~log[i].fault

\* C6: when add_to_folder(list_id, folder_id) follows a successful call with
\* the same arguments, no other client has written in between and the
\* service has answered every request, the second call returns and the
\* folder's list_ids are what the first call left.
C6_AddToFolderIdempotent ==
  /\ Done /\ call.op = "add_to_folder" /\ prev.list_id = call.args.list_id
  /\ ext = 0 /\ NoFault
  => /\ outcome.status = "return"
     /\ folder.list_ids = prev.list_ids
     /\ call.args.list_id \in Range(folder.list_ids)

C6_Witness ==
  /\ Done /\ call.op = "add_to_folder" /\ prev.list_id = call.args.list_id
  /\ ext = 0 /\ NoFault /\ outcome.status = "return"
  /\ Len(folder.list_ids) = 2

NoDuplicates(s) == Cardinality(Range(s)) = Len(s)

\* C7: after add_to_folder has returned with no external write during the
\* call, the folder's list_ids are the list_ids before the call, in their
\* order, followed by list_id unless it was among them; list_id is there
\* once, and this full sequence is what the PATCH carried.
C7_AddToFolderIsUnion ==
  Done /\ call.op = "add_to_folder" /\ outcome.status = "return" /\ ext = 0 =>
    /\ folder.list_ids = IF call.args.list_id \in Range(call.before)
                         THEN call.before
                         ELSE call.before \o <<call.args.list_id>>
    /\ Range(folder.list_ids) = Range(call.before) \cup {call.args.list_id}
    /\ Cardinality({i \in 1..Len(folder.list_ids) :
                      folder.list_ids[i] = call.args.list_id}) = 1
    /\ LastEntry.request.verb = "PATCH"
    /\ json_loads(LastEntry.request.data).list_ids = folder.list_ids

C7_Witness ==
  /\ Done /\ call.op = "add_to_folder" /\ outcome.status = "return" /\ ext = 0
  /\ call.before = <<1>> /\ call.args.list_id = 2 /\ folder.list_ids = <<1, 2>>

IsFolderRequest(r, verb) ==
  r.verb = verb /\ r.url.path = "folders" /\ r.url.id = call.args.id

C9_RevisionReadIsRevisionWritten ==
  call.op \in UpdateOps /\ ~RevisionGiven =>
    \A i \in 1..Len(log) :
      log[i].request.verb = "PATCH" =>
        /\ i = 2
        /\ log[1].request.verb = "GET"
        /\ "revision" \in DOMAIN json_loads(log[i].request.data)
        /\ json_loads(log[i].request.data).revision = log[1].response.body.revision
        /\ IsConflict(log[i].response.body) => Done /\ IsStaleRevision(outcome)
        /\ outcome.status = "return" => ~HasError(log[i].response.body)

C9_Witness ==
  /\ Done /\ call.op = "update_list" /\ ~RevisionGiven /\ Requests = 2
  /\ log[2].request.verb = "PATCH"
  /\ json_loads(log[2].request.data).revision = 2
  /\ log[1].response.body.revision = 2
  /\ IsConflict(log[2].response.body) /\ IsStaleRevision(outcome)

\* C10: every request carries X-Access-Token and X-Client-ID with the values
\* the object was constructed with, and Content-Type: application/json
\* exactly when it carries a body; the two header sets of the object keep
\* those values.
C10_HeadersOfEveryRequest ==
  /\ \A i \in 1..Len(log) :
       LET r == log[i].request IN
       /\ {"X-Access-Token", "X-Client-ID"} \subseteq DOMAIN r.headers
       /\ r.headers["X-Access-Token"] = credentials.oauth_token
       /\ r.headers["X-Client-ID"] = credentials.client_id
       /\ "Content-Type" \in DOMAIN r.headers <=> r.data # NoData
       /\ r.data # NoData => r.headers["Content-Type"] = "application/json"
       /\ r.verb \in {"POST", "PATCH"} => r.data # NoData
  /\ headers_plain["X-Access-Token"] = credentials.oauth_token
  /\ headers_plain["X-Client-ID"] = credentials.client_id
  /\ headers_payload["X-Access-Token"] = credentials.oauth_token
  /\ headers_payload["X-Client-ID"] = credentials.client_id

C10_Witness ==
  /\ Done /\ call.op = "update_folder" /\ Requests = 2
  /\ log[1].request.verb = "GET" /\ log[1].request.data = NoData
  /\ "Content-Type" \notin DOMAIN log[1].request.headers
  /\ log[2].request.verb = "PATCH" /\ log[2].request.data # NoData
  /\ log[2].request.headers["Content-Type"] = "application/json"
  /\ credentials.oauth_token = "tokenB"

MultiRequest ==
  \/ call.op \in UpdateOps \cup DeleteOps /\ ~RevisionGiven
  \/ call.op \in {"add_to_folder", "get_note_id"}

\* the exception with which the error of an answer reaches the caller
Surfaced(o, body) ==
  /\ o.status = "raise"
  /\ IF "revision_conflict" \in body.error.keys
     THEN o.exc = "ValueError" /\ o.msg = "Revision number is incorrect."
     ELSE IF "message" \in body.error.keys
     THEN o.exc = "ValueError" /\ o.msg = body.error.message
     ELSE o.exc = "KeyError"

\* C11: in an update or delete without a revision, in add_to_folder and in
\* get_note_id, a read answered with an error ends the call: the call raises
\* the exception of that error, returns no value in its place, and has
\* issued no request after it, so no PATCH and no DELETE.
C11_FailedReadEndsTheCall ==
  MultiRequest =>
    \A i \in 1..Len(log) :
      log[i].request.verb = "GET" /\ HasError(log[i].response.body) =>
        /\ Done /\ i = Len(log)
        /\ Surfaced(outcome, log[i].response.body)
        /\ \A j \in 1..Len(log) : log[j].request.verb = "GET"

C11_Witness ==
  /\ Done /\ call.op = "add_to_folder" /\ Requests = 2
  /\ ~HasError(log[1].response.body) /\ HasError(log[2].response.body)
  /\ log[2].response.body.error.message = "You are not authorized."
  /\ outcome.status = "raise" /\ outcome.msg = "You are not authorized."

\* the lists of an answer that have the title
Titled(lists, t) == {i \in 1..Len(lists) : lists[i].title = t}
LastTitled(lists, t) == CHOOSE i \in Titled(lists, t) : \A j \in Titled(lists, t) : j <= i

\* C12: list_ids issues exactly one request, a GET of the lists.  When it
\* is answered with the lists, list_ids() returns a mapping whose keys are
\* the titles of the lists and whose value for a title is the id of the last
\* list of the answer with that title; list_ids(title) returns that id when
\* a list has the title and raises KeyError when none has.
C12_ListIdsLastOneWins ==
  Done /\ call.op = "list_ids" =>
    /\ Requests = 1
    /\ log[1].request.verb = "GET"
    /\ log[1].request.url.path = "lists" /\ log[1].request.url.id = 0
    /\ log[1].response.body.type = "list" /\ ~log[1].fault =>
         LET lists == log[1].response.body.items IN
         IF "title" \in DOMAIN call.args.kwargs
         THEN LET t == call.args.kwargs.title IN
              IF Titled(lists, t) # {}
              THEN /\ outcome.status = "return"
                   /\ outcome.value = lists[LastTitled(lists, t)].id
              ELSE outcome.status = "raise" /\ outcome.exc = "KeyError"
         ELSE /\ outcome.status = "return"
              /\ DOMAIN outcome.value = {lists[i].title : i \in 1..Len(lists)}
              /\ \A i \in 1..Len(lists) :
                   outcome.value[lists[i].title] = lists[LastTitled(lists, lists[i].title)].id

C12_Witness ==
  /\ Done /\ call.op = "list_ids" /\ Requests = 1
  /\ call.args.kwargs = [title |-> "Groceries"]
  /\ log[1].response.body.type = "list" /\ Len(log[1].response.body.items) = 3
  /\ outcome.status = "return" /\ outcome.value = 3

\* the notes of an answer that refer to the task
NotesOf(notes, task_id) == {i \in 1..Len(notes) : notes[i].task_id = task_id}

\* C13: get_note_id(task_id) reads the task and then, if that read
\* succeeded, the notes of the list the task record names, and nothing else.
\* When the notes are answered it returns the id of the first of them whose
\* task_id is task_id, and when none has that task_id it raises the KeyError
\* "No note_id found for the given task_id.": it returns no other note's id.
C13_GetNoteId ==
  Done /\ call.op = "get_note_id" =>
    /\ Requests \in {1, 2}
    /\ log[1].request.verb = "GET"
    /\ log[1].request.url.path = "tasks" /\ log[1].request.url.id = call.args.id
    /\ Requests = 1 => HasError(log[1].response.body)
    /\ Requests = 2 =>
         /\ log[2].request.verb = "GET"
         /\ log[2].request.url.path = "notes" /\ log[2].request.url.id = 0
         /\ log[2].request.params = [list_id |-> log[1].response.body.list_id]
         /\ log[2].response.body.type = "list" /\ ~log[2].fault =>
              LET notes == log[2].response.body.items
                  mine == NotesOf(notes, call.args.id)
              IN IF mine # {}
                 THEN /\ outcome.status = "return"
                      /\ \E i \in mine : /\ \A j \in mine : i <= j
                                         /\ outcome.value = notes[i].id
                 ELSE /\ outcome.status = "raise" /\ outcome.exc = "KeyError"
                      /\ outcome.msg = "No note_id found for the given task_id."

C13_Witness ==
  /\ Done /\ call.op = "get_note_id" /\ Requests = 2
  /\ log[2].response.body.type = "list"
  /\ log[2].response.body.items = <<NoteItem(5, 2)>>
  /\ outcome.status = "raise" /\ outcome.exc = "KeyError"
  /\ outcome.msg = "No note_id found for the given task_id."

\* C14: an answer whose body is a list never fails the call in the check
\* of the response, whatever its elements are, an element with an error key
\* included: get_subtasks and get_notes return that body as it came, and a
\* call that goes on to read the elements (list_ids, get_note_id) can only
\* fail later, with the KeyError of its own lookup.
C14_ListBodyIsSuccess ==
  \A i \in 1..Len(log) :
    log[i].response.body.type = "list" =>
      /\ outcome.status = "raise" =>
           outcome.exc = "KeyError" /\ call.op \in {"list_ids", "get_note_id"}
      /\ call.op \in {"get_subtasks", "get_notes"} =>
           Done /\ outcome = Returned(log[i].response.body)

C14_Witness ==
  /\ Done /\ call.op = "get_notes" /\ Requests = 1
  /\ log[1].response.body.type = "list"
  /\ \E i \in 1..Len(log[1].response.body.items) :
       "error" \in log[1].response.body.items[i].keys
  /\ outcome = Returned(ListBody(<<NoteItem(6, 1), ErrorItem>>))

\* C15: when the PATCH of add_to_folder is accepted, the list_ids it wrote
\* contain every list id the folder held when the PATCH arrived, and
\* list_id; and a PATCH that arrives after another client has changed the
\* folder since the first read of the call is rejected as a revision
\* conflict, which the call raises (answers of a failing service apart).
C15_AddToFolderLosesNoExternalWrite ==
  call.op = "add_to_folder" =>
    \A i \in 1..Len(log) :
      log[i].request.verb = "PATCH" /\ ~log[i].fault =>
        /\ ~HasError(log[i].response.body) =>
             Range(log[i].at.list_ids) \cup {call.args.list_id}
               \subseteq Range(json_loads(log[i].request.data).list_ids)
        /\ log[i].at # log[1].at =>
             IsConflict(log[i].response.body) /\ IsStaleRevision(outcome)

\* C16: make_list_public returns true exactly when the record the PATCH
\* answered has public true, and false otherwise.
C16_MakeListPublicReportsPublic ==
  Done /\ call.op = "make_list_public" /\ outcome.status = "return" =>
    (outcome.value = TRUE <=> LastEntry.response.body.public = PyTrue)

====
